---- MODULE Spec2Model ----
(***************************************************************************)
(* A model of couchdb/schema.py: Field descriptors, the SchemaMeta field   *)
(* registry, Schema / Document instances over aliased raw documents, the   *)
(* ListField proxy, and the scalar converters.                             *)
(*                                                                         *)
(* Python objects live in two heaps: `dicts` (raw documents, each a        *)
(* function from its present keys to values) and `lists` (raw sequences).  *)
(* A reference is an index into a heap, so that aliasing is explicit.      *)
(***************************************************************************)
EXTENDS Integers, Sequences, FiniteSets, TLC

VARIABLES
    dicts,    \* heap of dict objects: Seq of [keys -> Value]
    lists,    \* heap of list objects: Seq of Seq(Value)
    recs,     \* Schema instances of type cut: Seq of [data, src]: _data, and the
              \* dict wrap() was given (0 for an instance not made by wrap)
    clock,    \* number of invocations of the default producer so far
    db,       \* the external store: [ids -> stored raw document]
    fobjs,    \* Field objects: Seq of [kind, name, default, elem]
    classes,  \* schema types: Seq of [fields, order, doc]
    cut,      \* the schema type the application instantiates
    fieldOrder, \* for each schema type instantiated, the order in which
              \* its _fields.items() yields the attributes
    rt,       \* the last scalar conversion round trip
    last      \* the last operation: its arguments, its result, its error

vars == <<dicts, lists, recs, clock, db, fobjs, classes, cut, fieldOrder, rt, last>>

(***************************************************************************)
(* Bounds of the model.                                                    *)
(***************************************************************************)
MaxRecs == 2      \* Schema instances alive
MaxDicts == 3     \* raw documents on the heap (one is DictField's default)
MaxElems == 2     \* dicts that are elements of raw sequences
MaxLists == 2     \* list objects on the heap (one is ListField's default)
MaxClock == 3     \* invocations of the default producer
MaxDb == 2        \* documents in the external store
MaxInt == 9       \* range of int() over decimal strings
MaxClasses == 3   \* classes the application defines or builds

(***************************************************************************)
(* Values.  Every Python value is a record of one shape, so that values of *)
(* different Python types compare unequal instead of failing to compare.   *)
(***************************************************************************)
None == [k |-> "none", n |-> 0, s |-> ""]
I(i) == [k |-> "int", n |-> i, s |-> ""]
S(str) == [k |-> "str", n |-> 0, s |-> str]
L(ref) == [k |-> "list", n |-> ref, s |-> ""]
D(ref) == [k |-> "dict", n |-> ref, s |-> ""]
Callable == [k |-> "callable", n |-> 0, s |-> "tick"]
ProxyOf(ref) == [k |-> "proxy", n |-> ref, s |-> ""]
SchemaOf(ref) == [k |-> "schema", n |-> ref, s |-> ""]

EmptyDict == [x \in {} |-> None]
DGet(d, key) == IF key \in DOMAIN d THEN d[key] ELSE None
DPut(d, key, v) == [x \in DOMAIN d \cup {key} |-> IF x = key THEN v ELSE d[x]]
DDel(d, key) == [x \in DOMAIN d \ {key} |-> d[x]]

Digit == <<"0", "1", "2", "3", "4", "5", "6", "7", "8", "9">>

RECURSIVE IntStr(_)
IntStr(i) ==
    IF i < 0 THEN "-" \o IntStr(0 - i)
    ELSE IF i < 10 THEN Digit[i + 1]
    ELSE IntStr(i \div 10) \o Digit[(i % 10) + 1]

(***************************************************************************)
(* The scalar kinds.  Strings are Python strings; a date is <<year, month, *)
(* day>>, a time of day <<hour, minute, second, microsecond>>, both naive. *)
(***************************************************************************)
Bool(b) == [k |-> "bool", n |-> IF b THEN 1 ELSE 0, s |-> ""]
\* a float that is a whole number of halves
Float(h) == [k |-> "float", n |-> h, s |-> ""]
\* decimal.Decimal: sign, coefficient and exponent
Decimal(sign, coeff, exp) == [k |-> "decimal", sign |-> sign, coeff |-> coeff, exp |-> exp]
Date(ymd) == [k |-> "date", ymd |-> ymd]
Time(hmsu) == [k |-> "time", hmsu |-> hmsu]
DateTime(ymd, hmsu) == [k |-> "datetime", ymd |-> ymd, hmsu |-> hmsu]
\* time.struct_time: the six leading members
StructTime(t) == [k |-> "struct_time", t |-> t]

IsDigit(c) == \E d \in 1..10 : Digit[d] = c
DigitVal(c) == (CHOOSE d \in 1..10 : Digit[d] = c) - 1

RECURSIVE ParseDigits(_)
\* int(s) for a string of digits, with leading blanks skipped
ParseDigits(s) ==
    IF s = "" THEN 0
    ELSE IF SubSeq(s, Len(s), Len(s)) = " " THEN 0
    ELSE 10 * ParseDigits(SubSeq(s, 1, Len(s) - 1)) + DigitVal(SubSeq(s, Len(s), Len(s)))

RECURSIVE ZFill(_, _)
\* '%0*d'
ZFill(s, w) == IF Len(s) < w THEN ZFill("0" \o s, w) ELSE s

RECURSIVE Zeros(_)
Zeros(n) == IF n <= 0 THEN "" ELSE "0" \o Zeros(n - 1)

RECURSIVE SplitHead(_, _)
\* s.split(sep, 1)[0], for any one separator of seps
SplitHead(s, seps) ==
    IF s = "" THEN ""
    ELSE IF Head(s) \in seps THEN ""
    ELSE Head(s) \o SplitHead(Tail(s), seps)

\* what follows the first separator of s, "" if there is none
SplitRest(s, seps) == SubSeq(s, Len(SplitHead(s, seps)) + 2, Len(s))

RECURSIVE RStrip(_, _)
\* s.rstrip(c)
RStrip(s, c) ==
    IF s # "" /\ SubSeq(s, Len(s), Len(s)) = c
    THEN RStrip(SubSeq(s, 1, Len(s) - 1), c)
    ELSE s

\* calendar.isleap, calendar.mdays
IsLeap(y) == y % 4 = 0 /\ (y % 100 # 0 \/ y % 400 = 0)
MDays(y) == <<31, IF IsLeap(y) THEN 29 ELSE 28, 31, 30, 31, 30, 31, 31, 30, 31, 30, 31>>

DaysBeforeYear(y) == 365 * (y - 1) + ((y - 1) \div 4) - ((y - 1) \div 100) + ((y - 1) \div 400)

RECURSIVE DaysBeforeMonth(_, _)
DaysBeforeMonth(y, m) ==
    IF m = 1 THEN 0 ELSE DaysBeforeMonth(y, m - 1) + MDays(y)[m - 1]

\* date.toordinal
ToOrdinal(ymd) == DaysBeforeYear(ymd[1]) + DaysBeforeMonth(ymd[1], ymd[2]) + ymd[3]

\* date.fromordinal
FromOrdinal(n) ==
    LET est == (n * 400) \div 146097
        y == CHOOSE c \in (est - 1)..(est + 2) :
                 DaysBeforeYear(c) < n /\ n <= DaysBeforeYear(c + 1)
        r == n - DaysBeforeYear(y)
        m == CHOOSE c \in 1..12 :
                 DaysBeforeMonth(y, c) < r /\ r <= DaysBeforeMonth(y, c) + MDays(y)[c]
    IN <<y, m, r - DaysBeforeMonth(y, m)>>

\* calendar.timegm of the six leading members of a time tuple; 719163 is
\* date(1970, 1, 1).toordinal()
Timegm(t) ==
    LET days == ToOrdinal(<<t[1], 1, 1>>) - 719163
                  + DaysBeforeMonth(t[1], t[2]) + t[3] - 1
    IN ((days * 24 + t[4]) * 60 + t[5]) * 60 + t[6]

\* datetime.utcfromtimestamp of a whole number of seconds
UtcFromTimestamp(ts) ==
    LET days == ts \div 86400
        secs == ts % 86400
    IN DateTime(FromOrdinal(days + 719163),
                <<secs \div 3600, (secs % 3600) \div 60, secs % 60, 0>>)

\* date.isoformat
IsoDate(ymd) ==
    ZFill(IntStr(ymd[1]), 4) \o "-" \o ZFill(IntStr(ymd[2]), 2) \o "-"
        \o ZFill(IntStr(ymd[3]), 2)

\* time.isoformat: the microseconds are written only when they are not zero
IsoTime(hmsu) ==
    ZFill(IntStr(hmsu[1]), 2) \o ":" \o ZFill(IntStr(hmsu[2]), 2) \o ":"
        \o ZFill(IntStr(hmsu[3]), 2)
        \o (IF hmsu[4] # 0 THEN "." \o ZFill(IntStr(hmsu[4]), 6) ELSE "")

\* the directives of time.strptime: the strings each one matches
DirectiveOk(d, f) ==
    LET n == ParseDigits(f)
        digits == f # "" /\ \A i \in 1..Len(f) : IsDigit(SubSeq(f, i, i))
    IN CASE d = "Y" -> digits /\ Len(f) = 4
         [] d = "m" -> digits /\ Len(f) \in 1..2 /\ n \in 1..12
         [] d = "d" -> \/ digits /\ Len(f) \in 1..2 /\ n \in 1..31
                       \/ Len(f) = 2 /\ Head(f) = " " /\ IsDigit(Tail(f)) /\ Tail(f) # "0"
         [] d = "H" -> digits /\ Len(f) \in 1..2 /\ n \in 0..23
         [] d = "M" -> digits /\ Len(f) \in 1..2 /\ n \in 0..59
         [] d = "S" -> digits /\ Len(f) \in 1..2 /\ n \in 0..61

RECURSIVE FieldPrefix(_)
\* the leading digits and blanks of s
FieldPrefix(s) ==
    IF s # "" /\ (IsDigit(Head(s)) \/ Head(s) = " ")
    THEN Head(s) \o FieldPrefix(Tail(s)) ELSE ""

RECURSIVE SplitFields(_, _)
\* the fields of s that the literals seps separate; <<"">> when s has another
\* shape (the literals match in either case, the pattern being compiled with
\* IGNORECASE)
SplitFields(s, seps) ==
    LET f == FieldPrefix(s)
        rest == SubSeq(s, Len(f) + 1, Len(s))
    IN IF seps = <<>> THEN IF rest = "" THEN <<f>> ELSE <<"">>
       ELSE IF rest # "" /\ Head(rest) \in seps[1]
            THEN LET t == SplitFields(Tail(rest), Tail(seps))
                 IN IF t = <<"">> THEN t ELSE <<f>> \o t
            ELSE <<"">>

\* time.strptime(s, format) for a format of directives ds separated by the
\* literals seps: the members the format names, as a mapping from directive
\* to number; ValueError when s does not match or names no calendar day
Strptime(s, ds, seps) ==
    LET fs == SplitFields(s, seps)
        ok == /\ Len(fs) = Len(ds)
              /\ \A i \in 1..Len(ds) : DirectiveOk(ds[i], fs[i])
        num(d, dflt) == IF \E i \in 1..Len(ds) : ds[i] = d
                        THEN ParseDigits(fs[CHOOSE i \in 1..Len(ds) : ds[i] = d])
                        ELSE dflt
        t == <<num("Y", 1900), num("m", 1), num("d", 1),
               num("H", 0), num("M", 0), num("S", 0)>>
    IN IF ~ok THEN [val |-> <<>>, err |-> "ValueError"]
       ELSE IF t[1] < 1 \/ t[3] > MDays(t[1])[t[2]]
            THEN [val |-> <<>>, err |-> "ValueError"]
       ELSE [val |-> t, err |-> ""]

AllDigits(s) == \A i \in 1..Len(s) : IsDigit(SubSeq(s, i, i))

\* str(Decimal): the scientific string of the decimal arithmetic specification
DecimalStr(v) ==
    LET digits == IntStr(v.coeff)
        leftdigits == v.exp + Len(digits)
        dotplace == IF v.exp <= 0 /\ leftdigits > 0 - 6 THEN leftdigits ELSE 1
        intpart == IF dotplace <= 0 THEN "0"
                   ELSE IF dotplace >= Len(digits)
                        THEN digits \o Zeros(dotplace - Len(digits))
                   ELSE SubSeq(digits, 1, dotplace)
        fracpart == IF dotplace <= 0 THEN "." \o Zeros(0 - dotplace) \o digits
                    ELSE IF dotplace >= Len(digits) THEN ""
                    ELSE "." \o SubSeq(digits, dotplace + 1, Len(digits))
        e == leftdigits - dotplace
        exppart == IF e = 0 THEN ""
                   ELSE "E" \o (IF e > 0 THEN "+" ELSE "") \o IntStr(e)
    IN (IF v.sign = 1 THEN "-" ELSE "") \o intpart \o fracpart \o exppart

\* Decimal(s) for a numeral s: [sign] digits [. digits] [E [sign] digits]
DecimalParse(s) ==
    LET sign == IF s # "" /\ Head(s) = "-" THEN 1 ELSE 0
        body == IF s # "" /\ Head(s) \in {"-", "+"} THEN Tail(s) ELSE s
        mant == SplitHead(body, {"E", "e"})
        hasexp == Len(mant) < Len(body)
        estr == SplitRest(body, {"E", "e"})
        eneg == estr # "" /\ Head(estr) = "-"
        edig == IF estr # "" /\ Head(estr) \in {"-", "+"} THEN Tail(estr) ELSE estr
        int == SplitHead(mant, {"."})
        frac == SplitRest(mant, {"."})
        ok == /\ AllDigits(int) /\ AllDigits(frac)
              /\ int \o frac # ""
              /\ hasexp => (edig # "" /\ AllDigits(edig))
        e == IF eneg THEN 0 - ParseDigits(edig) ELSE ParseDigits(edig)
    IN IF ok THEN [val |-> Decimal(sign, ParseDigits(int \o frac), e - Len(frac)),
                   err |-> ""]
       ELSE [val |-> None, err |-> "InvalidOperation"]

\* unicode(value)
Unicode(v) ==
    IF v.k = "str" THEN [val |-> v, err |-> ""]
    ELSE IF v.k = "int" THEN [val |-> S(IntStr(v.n)), err |-> ""]
    ELSE [val |-> S("<" \o v.k \o ">"), err |-> ""]

\* int(value): the decimal strings of -MaxInt..MaxInt parse, other strings do not
PyInt(v) ==
    IF v.k = "int" THEN [val |-> v, err |-> ""]
    ELSE IF v.k = "str" /\ \E i \in (0 - MaxInt)..MaxInt : IntStr(i) = v.s
        THEN [val |-> I(CHOOSE i \in (0 - MaxInt)..MaxInt : IntStr(i) = v.s), err |-> ""]
    ELSE IF v.k = "str" THEN [val |-> None, err |-> "ValueError"]
    ELSE [val |-> None, err |-> "TypeError"]

\* float(value): numbers convert, the decimal strings of -MaxInt..MaxInt parse
PyFloat(v) ==
    IF v.k = "float" THEN [val |-> v, err |-> ""]
    ELSE IF v.k \in {"int", "bool"} THEN [val |-> Float(2 * v.n), err |-> ""]
    ELSE IF v.k = "str"
         THEN IF PyInt(v).err = "" THEN [val |-> Float(2 * PyInt(v).val.n), err |-> ""]
              ELSE [val |-> None, err |-> "ValueError"]
    ELSE [val |-> None, err |-> "TypeError"]

\* bool(value) of a scalar
PyBool(v) ==
    CASE v.k = "none" -> Bool(FALSE)
      [] v.k \in {"int", "float", "bool"} -> Bool(v.n # 0)
      [] v.k = "str" -> Bool(v.s # "")
      [] v.k = "decimal" -> Bool(v.coeff # 0)
      [] v.k = "time" -> Bool(v.hmsu # <<0, 0, 0, 0>>)
      [] OTHER -> Bool(TRUE)

\* DecimalField._to_python
DecimalToPython(value) ==
    CASE value.k = "decimal" -> [val |-> value, err |-> ""]
      [] value.k = "int" ->
            [val |-> Decimal(IF value.n < 0 THEN 1 ELSE 0,
                             IF value.n < 0 THEN 0 - value.n ELSE value.n, 0),
             err |-> ""]
      [] value.k = "str" -> DecimalParse(value.s)
      [] OTHER -> [val |-> None, err |-> "TypeError"]

\* DecimalField._to_json
DecimalToJson(value) ==
    IF value.k = "decimal" THEN [val |-> S(DecimalStr(value)), err |-> ""]
    ELSE Unicode(value)

\* DateField._to_python
DateToPython(value) ==
    IF value.k = "str"
    THEN LET t == Strptime(value.s, <<"Y", "m", "d">>, <<{"-"}, {"-"}>>)
         IN IF t.err # "" THEN [val |-> None, err |-> "ValueError"]
            ELSE [val |-> Date(SubSeq(t.val, 1, 3)), err |-> ""]
    ELSE [val |-> value, err |-> ""]

\* DateField._to_json
DateToJson(value) ==
    LET v == IF value.k = "datetime" THEN Date(value.ymd) ELSE value
    IN IF v.k = "date" THEN [val |-> S(IsoDate(v.ymd)), err |-> ""]
       ELSE IF v.k = "time" THEN [val |-> S(IsoTime(v.hmsu)), err |-> ""]
       ELSE [val |-> None, err |-> "AttributeError"]

\* DateTimeField._to_python
DateTimeToPython(value) ==
    IF value.k = "str"
    THEN LET s1 == SplitHead(value.s, {"."})
             s2 == RStrip(s1, "Z")
             t == Strptime(s2, <<"Y", "m", "d", "H", "M", "S">>,
                           <<{"-"}, {"-"}, {"T", "t"}, {":"}, {":"}>>)
         IN IF t.err # "" THEN [val |-> None, err |-> "ValueError"]
            ELSE [val |-> UtcFromTimestamp(Timegm(t.val)), err |-> ""]
    ELSE [val |-> value, err |-> ""]

\* a mutation of DateTimeField._to_json: the nearest whole second
DateTimeToJsonRounded(value) ==
    IF value.k # "datetime" THEN [val |-> None, err |-> "TypeError"]
    ELSE LET ts == Timegm(value.ymd \o SubSeq(value.hmsu, 1, 3))
                     + (IF value.hmsu[4] >= 500000 THEN 1 ELSE 0)
             v == UtcFromTimestamp(ts)
         IN [val |-> S(IsoDate(v.ymd) \o "T" \o IsoTime(v.hmsu) \o "Z"), err |-> ""]

\* DateTimeField._to_json
DateTimeToJson(value) ==
    LET v == IF value.k = "struct_time" THEN UtcFromTimestamp(Timegm(value.t))
             ELSE IF value.k = "date" THEN DateTime(value.ymd, <<0, 0, 0, 0>>)
             ELSE value
    IN IF v.k # "datetime" THEN [val |-> None, err |-> "TypeError"]
       ELSE LET r == [v EXCEPT !.hmsu[4] = 0]
            IN [val |-> S(IsoDate(r.ymd) \o "T" \o IsoTime(r.hmsu) \o "Z"), err |-> ""]

\* TimeField._to_python
TimeToPython(value) ==
    IF value.k = "str"
    THEN LET s1 == SplitHead(value.s, {"."})
             t == Strptime(s1, <<"H", "M", "S">>, <<{":"}, {":"}>>)
         IN IF t.err # "" \/ t.val[6] > 59 THEN [val |-> None, err |-> "ValueError"]
            ELSE [val |-> Time(SubSeq(t.val, 4, 6) \o <<0>>), err |-> ""]
    ELSE [val |-> value, err |-> ""]

\* TimeField._to_json
TimeToJson(value) ==
    LET v == IF value.k = "datetime" THEN Time(value.hmsu) ELSE value
    IN IF v.k = "time"
       THEN [val |-> S(IsoTime([v EXCEPT !.hmsu[4] = 0].hmsu)), err |-> ""]
       ELSE IF v.k \in {"date", "str"} THEN [val |-> None, err |-> "TypeError"]
       ELSE [val |-> None, err |-> "AttributeError"]

\* _to_python of the scalar Field classes
ScalarToPython(kind, value) ==
    CASE kind = "Text" -> Unicode(value)
      [] kind = "Float" -> PyFloat(value)
      [] kind = "Integer" -> PyInt(value)
      [] kind = "Long" -> PyInt(value)
      [] kind = "Boolean" -> [val |-> PyBool(value), err |-> ""]
      [] kind = "Decimal" -> DecimalToPython(value)
      [] kind = "Date" -> DateToPython(value)
      [] kind = "DateTime" -> DateTimeToPython(value)
      [] kind = "Time" -> TimeToPython(value)

\* _to_json of the scalar Field classes: Field._to_json calls _to_python
\* unless the class defines its own
ScalarToJson(kind, value) ==
    CASE kind \in {"Text", "Float", "Integer", "Long", "Boolean"} ->
            ScalarToPython(kind, value)
      [] kind = "Decimal" -> DecimalToJson(value)
      [] kind = "Date" -> DateToJson(value)
      [] kind = "DateTime" -> DateTimeToJson(value)
      [] kind = "Time" -> TimeToJson(value)

(***************************************************************************)
(* Field objects and the registry built by SchemaMeta.                     *)
(***************************************************************************)
\* Field.__init__: name "" stands for None (both are "not attrval.name")
F(kind, name, default, elem) ==
    [kind |-> kind, name |-> name, default |-> default, elem |-> elem]

EmptyReg == [x \in {} |-> 0]

\* dict.update(other)
Update(a, b) == [x \in DOMAIN a \cup DOMAIN b |-> IF x \in DOMAIN b THEN b[x] ELSE a[x]]

\* the orders in which iterating a dict with the keys s can yield them
Orders(s) ==
    {o \in [1..Cardinality(s) -> s] : \A x \in s : \E i \in DOMAIN o : o[i] = x}

\* SchemaMeta.__new__, first loop: the bases' registries, later bases on top
RECURSIVE BaseFields(_, _)
BaseFields(cs, bases) ==
    IF bases = <<>> THEN EmptyReg
    ELSE Update(BaseFields(cs, SubSeq(bases, 1, Len(bases) - 1)),
                cs[bases[Len(bases)]].fields)

\* SchemaMeta.__new__, second loop over d.items(): items is a sequence of
\* <<attrname, field reference>>; reference 0 is an attribute that is no Field
RECURSIVE OwnFields(_, _, _)
OwnFields(fo, fields, items) ==
    IF items = <<>> THEN [fobjs |-> fo, fields |-> fields]
    ELSE LET attr == items[1][1]
             ref == items[1][2]
         IN IF ref = 0 THEN OwnFields(fo, fields, Tail(items))
            ELSE LET fo1 == IF fo[ref].name = ""
                            THEN [fo EXCEPT ![ref].name = attr] ELSE fo
                 IN OwnFields(fo1, DPut(fields, attr, ref), Tail(items))

\* SchemaMeta.__new__: the new class's registry, and the Field objects with
\* the inferred names assigned
SchemaMetaNew(fo, cs, bases, items) ==
    LET own == OwnFields(fo, BaseFields(cs, bases), items)
    IN [fobjs |-> own.fobjs,
        cls |-> [fields |-> own.fields,
                 bases |-> bases,
                 doc |-> \E i \in 1..Len(bases) : cs[bases[i]].doc]]

\* Schema.build(**d): names the fields, then type('AnonymousStruct', (cls,), d)
\* runs SchemaMeta.__new__ with cls as the only base
SchemaBuild(fo, cs, cls, items) ==
    LET named == OwnFields(fo, EmptyReg, items)
    IN SchemaMetaNew(named.fobjs, cs, <<cls>>, items)

\* The classes schema.py itself defines: Schema (1) and Document (2)
SchemaCls == 1
DocumentCls == 2
BaseClasses == << [fields |-> EmptyReg, bases |-> <<>>, doc |-> FALSE],
                  [fields |-> EmptyReg, bases |-> <<SchemaCls>>, doc |-> TRUE] >>

(***************************************************************************)
(* The application's declarations, in the style of the module's doctests:  *)
(*   class Person(Schema):    name = TextField()                           *)
(*                            age = IntegerField(default=0)                *)
(*   class Event(Schema):     added = IntegerField(default=tick)           *)
(*   class Article(Document): name = TextField()                           *)
(*   Comment = Schema.build(author=TextField(),                            *)
(*                          stars=IntegerField(default=0))                 *)
(*   class Post(Schema):      comments = ListField(DictField(Comment))     *)
(* tick is a deterministic clock: its n-th invocation returns n.           *)
(***************************************************************************)
PersonCls == 3
EventCls == 4
ArticleCls == 5
CommentCls == 6
PostCls == 7

\* the default objects DictField.__init__ and ListField.__init__ allocate
DictDefaultRef == 1
ListDefaultRef == 1

DeclFields == <<
    F("Text", "", None, 0),
    F("Integer", "", I(0), 0),
    F("Integer", "", Callable, 0),
    F("Text", "", None, 0),
    F("Text", "", None, 0),
    F("Integer", "", I(0), 0),
    F("Dict", "", D(DictDefaultRef), CommentCls),
    F("List", "", L(ListDefaultRef), 7) >>

App ==
    LET c3 == SchemaMetaNew(DeclFields, BaseClasses, <<SchemaCls>>,
                            << <<"name", 1>>, <<"age", 2>> >>)
        cs3 == Append(BaseClasses, c3.cls)
        c4 == SchemaMetaNew(c3.fobjs, cs3, <<SchemaCls>>, << <<"added", 3>> >>)
        cs4 == Append(cs3, c4.cls)
        c5 == SchemaMetaNew(c4.fobjs, cs4, <<DocumentCls>>, << <<"name", 4>> >>)
        cs5 == Append(cs4, c5.cls)
        c6 == SchemaBuild(c5.fobjs, cs5, SchemaCls,
                          << <<"author", 5>>, <<"stars", 6>> >>)
        cs6 == Append(cs5, c6.cls)
        c7 == SchemaMetaNew(c6.fobjs, cs6, <<SchemaCls>>, << <<"comments", 8>> >>)
    IN [fobjs |-> c7.fobjs, classes |-> Append(cs6, c7.cls)]

\* the schema types whose __init__ runs when c is instantiated: c and the
\* types of its DictFields and of the DictFields its ListFields hold
RECURSIVE Instantiated(_, _, _)
Instantiated(fs, cs, c) ==
    {c} \cup UNION {Instantiated(fs, cs, IF fs[i].kind = "Dict" THEN fs[i].elem
                                         ELSE fs[fs[i].elem].elem) :
                    i \in {cs[c].fields[a] : a \in {b \in DOMAIN cs[c].fields :
                              \/ fs[cs[c].fields[b]].kind = "Dict"
                              \/ /\ fs[cs[c].fields[b]].kind = "List"
                                 /\ fs[fs[cs[c].fields[b]].elem].kind = "Dict"}}}

\* one iteration order of _fields.items() for each schema type of types
FieldOrders(cs, types) ==
    {o \in [types -> UNION {Orders(DOMAIN cs[c].fields) : c \in types}] :
        \A c \in types : o[c] \in Orders(DOMAIN cs[c].fields)}

FieldOf(c, attr) == fobjs[classes[c].fields[attr]]
NameOf(a) == FieldOf(cut, a).name
Attrs(c) == DOMAIN classes[c].fields

(***************************************************************************)
(* The interpreter state threaded through a call: the two heaps and the    *)
(* producer's clock.  Every operator returns [st, val, err].               *)
(***************************************************************************)
Ok(st, v) == [st |-> st, val |-> v, err |-> ""]
Raise(st, e) == [st |-> st, val |-> None, err |-> e]
Conv(st, r) == [st |-> st, val |-> r.val, err |-> r.err]
\* the statements after a call: an exception raised by the call ends them
Then(r, Rest(_)) == IF r.err # "" THEN r ELSE Rest(r)
\* as Then, when nothing the raising call did to st is kept
Try(st, r, Rest(_)) == IF r.err # "" THEN Raise(st, r.err) ELSE Rest(r)
\* a result bound to a name
With(r, Body(_)) == Body(r)

RECURSIVE SchemaInit(_, _, _)
RECURSIVE InitLoop(_, _, _, _, _)
RECURSIVE FieldSet(_, _, _, _)
RECURSIVE ToJson(_, _, _)
RECURSIVE ListToJson(_, _, _, _)
RECURSIVE ToPython(_, _, _)

\* Field._to_python of each kind (DictField.schema.wrap runs cls() first)
ToPython(st, f, value) ==
    CASE f.kind = "Text" -> Conv(st, Unicode(value))
      [] f.kind = "Integer" -> Conv(st, PyInt(value))
      [] f.kind = "List" -> Ok(st, ProxyOf(value.n))
      [] f.kind = "Dict" ->
            Try(st, SchemaInit(st, f.elem, EmptyDict),
                LAMBDA tmp : Ok([st EXCEPT !.clock = tmp.st.clock], SchemaOf(value.n)))

\* Field.__get__
FieldGet(st, ref, f) ==
    LET value == DGet(st.dicts[ref], f.name)
    IN IF value # None THEN ToPython(st, f, value)
       ELSE IF f.default # None
            THEN IF f.default = Callable
                 THEN Ok([st EXCEPT !.clock = @ + 1], I(st.clock + 1))
                 ELSE Ok(st, f.default)
       ELSE Ok(st, None)

\* the items a for-loop over `value` sees: a raw list's elements, or a
\* Proxy's elements (each the element field's _to_python of the raw element)
IterItems(st, elem, value) ==
    IF value.k = "list" THEN st.lists[value.n]
    ELSE IF value.k = "proxy"
         THEN [i \in 1..Len(st.lists[value.n]) |->
                 IF elem.kind = "Dict" THEN SchemaOf(st.lists[value.n][i].n)
                 ELSE st.lists[value.n][i]]
    ELSE <<>>

\* ListField._to_json: [self.field._to_json(item) for item in value]
ListToJson(st, elem, items, acc) ==
    IF items = <<>>
    THEN Ok([st EXCEPT !.lists = Append(@, acc)], L(Len(st.lists) + 1))
    ELSE Then(ToJson(st, elem, Head(items)),
              LAMBDA r : ListToJson(r.st, elem, Tail(items), Append(acc, r.val)))

\* Field._to_json of each kind
ToJson(st, f, value) ==
    CASE f.kind = "Text" -> Conv(st, Unicode(value))
      [] f.kind = "Integer" -> Conv(st, PyInt(value))
      [] f.kind = "List" ->
            IF value.k \in {"list", "proxy"}
            THEN ListToJson(st, fobjs[f.elem], IterItems(st, fobjs[f.elem], value), <<>>)
            ELSE Raise(st, "TypeError")
      [] f.kind = "Dict" ->
            IF value.k = "schema" THEN Ok(st, D(value.n))
            ELSE IF value.k = "dict" THEN SchemaInit(st, f.elem, st.dicts[value.n])
            ELSE Raise(st, "TypeError")

\* Field.__set__
FieldSet(st, ref, f, value) ==
    IF value = None
    THEN Ok([st EXCEPT !.dicts[ref] = DPut(@, f.name, None)], None)
    ELSE Then(ToJson(st, f, value),
              LAMBDA r : Ok([r.st EXCEPT !.dicts[ref] = DPut(@, f.name, r.val)], None))

\* Schema.__init__, the loop over self._fields.items(): a supplied value is
\* set; otherwise the getter's result is set
InitLoop(st, c, ref, attrs, kwargs) ==
    IF attrs = <<>> THEN Ok(st, D(ref))
    ELSE LET attr == Head(attrs)
             f == FieldOf(c, attr)
         IN Then(Then(IF attr \in DOMAIN kwargs
                      THEN Ok(st, kwargs[attr])
                      ELSE FieldGet(st, ref, f),
                      LAMBDA v : FieldSet(v.st, ref, f, v.val)),
                 LAMBDA r : InitLoop(r.st, c, ref, Tail(attrs), kwargs))

\* Schema.__init__(**values): self._data = {} and the loop; val is the new dict
SchemaInit(st, c, kwargs) ==
    InitLoop([st EXCEPT !.dicts = Append(@, EmptyDict)], c, Len(st.dicts) + 1,
             fieldOrder[c], kwargs)

WrapDefaulting(st, c, ref) ==
    Try(st, SchemaInit(st, c, st.dicts[ref]),
        LAMBDA tmp : Ok([st EXCEPT !.clock = tmp.st.clock,
                                   !.dicts[ref] = tmp.st.dicts[tmp.val.n]], D(ref)))

WrapCopy(st, c, ref) ==
    Try(st, SchemaInit(st, c, EmptyDict),
        LAMBDA tmp : Ok([st EXCEPT !.clock = tmp.st.clock,
                                   !.dicts = Append(@, st.dicts[ref])],
                        D(Len(st.dicts) + 1)))

\* Schema.wrap(data): instance = cls(); instance._data = data.  cls() builds
\* and fills a dict of its own, which is dropped: only the producer
\* invocations it made remain.  val is the instance's _data
SchemaWrap(st, c, ref) ==
    Try(st, SchemaInit(st, c, EmptyDict),
        LAMBDA tmp : Ok([st EXCEPT !.clock = tmp.st.clock], D(ref)))


(***************************************************************************)
(* Document: the reserved keys and the external store.                     *)
(***************************************************************************)
\* Document._get_id (a client.Document's .id is its '_id' as well)
DocGetId(st, ref) == DGet(st.dicts[ref], "_id")

\* Document.rev
DocGetRev(st, ref) == DGet(st.dicts[ref], "_rev")

DocSetIdOverwrite(st, ref, value) ==
    Ok([st EXCEPT !.dicts[ref] = DPut(@, "_id", value)], None)

\* Document._set_id
DocSetId(st, ref, value) ==
    IF DocGetId(st, ref) # None THEN Raise(st, "AttributeError")
    ELSE Ok([st EXCEPT !.dicts[ref] = DPut(@, "_id", value)], None)

\* The store contract: create(raw) -> id assigns the next server id and the
\* first revision; get(id) returns a new raw document; db[id] = raw upserts
ServerIds == <<"d1", "d2", "d3", "d4">>
NoDb == [x \in {} |-> EmptyDict]
Call(fn, id) == [fn |-> fn, id |-> id]

DbCreate(d, doc) ==
    LET id == ServerIds[1 + Cardinality({i \in 1..Len(ServerIds) : ServerIds[i] \in DOMAIN d})]
    IN [db |-> DPut(d, id, DPut(DPut(doc, "_id", S(id)), "_rev", I(1))), id |-> id]

DbPut(d, id, doc) == DPut(d, id, DPut(doc, "_id", S(id)))

\* db.get(docid): a dict object of its own, or None
DbGet(st, d, id) ==
    IF id \in DOMAIN d
    THEN Ok([st EXCEPT !.dicts = Append(@, d[id])], D(Len(st.dicts) + 1))
    ELSE Ok(st, None)

StoreNoResync(st, d, ref) ==
    LET id == DocGetId(st, ref)
    IN IF id = None
       THEN LET c == DbCreate(d, st.dicts[ref])
            IN [st |-> st, db |-> c.db, data |-> ref,
                calls |-> <<Call("create", "")>>]
       ELSE [st |-> st, db |-> DbPut(d, id.s, st.dicts[ref]), data |-> ref,
             calls |-> <<Call("put", id.s)>>]

\* Document.store(db): the new heap, the new store, the instance's _data
\* afterwards and the calls made on the store, in order
DocStore(st, d, ref) ==
    LET id == DocGetId(st, ref)
    IN IF id = None
       THEN LET c == DbCreate(d, st.dicts[ref])
                g == DbGet(st, c.db, c.id)
            IN [st |-> g.st, db |-> c.db, data |-> g.val.n,
                calls |-> <<Call("create", ""), Call("get", c.id)>>]
       ELSE [st |-> st, db |-> DbPut(d, id.s, st.dicts[ref]), data |-> ref,
             calls |-> <<Call("put", id.s)>>]


(***************************************************************************)
(* ListField.Proxy.                                                        *)
(***************************************************************************)
\* DictField._to_json of a mapping: self.schema(**value).unwrap()
DictToJsonKw(st, f, kw) == SchemaInit(st, f.elem, kw)

ProxyAppendKwRaw(st, lref, elem, kw) ==
    Ok([st EXCEPT !.dicts = Append(@, kw),
                  !.lists[lref] = Append(@, D(Len(st.dicts) + 1))], None)

\* ListField.Proxy.append(**kwargs): value = kwargs, converted by the element
\* field's _to_json and appended to the wrapped list
ProxyAppendKw(st, lref, elem, kw) ==
    Then(DictToJsonKw(st, elem, kw),
         LAMBDA j : Ok([j.st EXCEPT !.lists[lref] = Append(@, j.val)], None))

\* the assignment as it would be were the right-hand side the value supplied:
\* self.list[index] = self.field._to_json(value)
ProxySetItemSupplied(st, lref, elem, i, kw) ==
    Then(DictToJsonKw(st, elem, kw),
         LAMBDA j : IF i \notin 1..Len(st.lists[lref]) THEN Raise(st, "IndexError")
                    ELSE Ok([j.st EXCEPT !.lists[lref][i] = j.val], None))

\* ListField.Proxy.__setitem__(index, value): the right-hand side names
\* `item`, which is bound nowhere in the method or the module: NameError,
\* before anything is written.  i is the 1-based position, kw the mapping
\* given as value
ProxySetItem(st, lref, elem, i, kw) == Raise(st, "NameError")

\* list.__setitem__ on a plain list (the getter returned the default list)
ListSetItem(st, lref, i, kw) ==
    IF i \notin 1..Len(st.lists[lref]) THEN Raise(st, "IndexError")
    ELSE Ok([st EXCEPT !.dicts = Append(@, kw),
                       !.lists[lref][i] = D(Len(st.dicts) + 1)], None)

\* ListField.Proxy.__delitem__(index): del self.list[index], index a Python
\* index (0-based, negative from the end); the same on a plain list
ProxyDelItem(st, lref, index) ==
    LET n == Len(st.lists[lref])
        pos == IF index < 0 THEN n + index + 1 ELSE index + 1
    IN IF pos < 1 \/ pos > n THEN Raise(st, "IndexError")
       ELSE Ok([st EXCEPT !.lists[lref] = SubSeq(@, 1, pos - 1) \o SubSeq(@, pos + 1, n)],
               None)

\* ListField.Proxy.append(value): args[0] takes the place of kwargs
ProxyAppend(st, lref, elem, value) == ProxyAppendKw(st, lref, elem, value)

RECURSIVE ProxyExtend(_, _, _, _)
\* ListField.Proxy.extend(list): for item in list: self.append(item)
ProxyExtend(st, lref, elem, items) ==
    IF items = <<>> THEN Ok(st, None)
    ELSE Then(ProxyAppend(st, lref, elem, Head(items)),
              LAMBDA r : ProxyExtend(r.st, lref, elem, Tail(items)))

\* list.append(value) on a plain list (the getter returned the default
\* list): the mapping given is stored as it is
ListAppend(st, lref, value) ==
    Ok([st EXCEPT !.dicts = Append(@, value),
                  !.lists[lref] = Append(@, D(Len(st.dicts) + 1))], None)

RECURSIVE ListExtend(_, _, _)
\* list.extend(items) on a plain list
ListExtend(st, lref, items) ==
    IF items = <<>> THEN Ok(st, None)
    ELSE Then(ListAppend(st, lref, Head(items)),
              LAMBDA r : ListExtend(r.st, lref, Tail(items)))

(***************************************************************************)
(* Operations of the application on the records.                           *)
(***************************************************************************)
St == [dicts |-> dicts, lists |-> lists, clock |-> clock]
Commit(st) == dicts' = st.dicts /\ lists' = st.lists /\ clock' = st.clock
\* the dicts that are elements of a raw sequence, and the others: documents
Elems(st) ==
    UNION {{st.lists[l][j].n : j \in {i \in 1..Len(st.lists[l]) : st.lists[l][i].k = "dict"}} :
           l \in 1..Len(st.lists)}
Roots(st) == (1..Len(st.dicts)) \ Elems(st)
Fits(st) ==
    /\ Cardinality(Roots(st)) <= MaxDicts
    /\ Cardinality(Elems(st)) <= MaxElems
    /\ Len(st.lists) <= MaxLists
    /\ st.clock <= MaxClock

Op(op, rec, key, kw, val, ret, err, calls) ==
    [op |-> op, rec |-> rec, key |-> key, kw |-> kw, val |-> val,
     ret |-> ret, err |-> err, calls |-> calls]
NoOp == Op("", 0, "", EmptyDict, None, None, "", <<>>)
NoRT == [kind |-> "", x |-> None, json |-> None, back |-> None, again |-> None,
         err |-> "", pc |-> ""]

\* the typed values the application assigns to a field
Inputs(f) ==
    CASE f.kind = "Text" -> {S("a")}
      [] f.kind = "Integer" -> {I(5)}
      [] OTHER -> {}
AllInputs == {S("a"), I(5)}
KwargsOf(c) ==
    UNION { {kw \in [A -> AllInputs] : \A a \in A : kw[a] \in Inputs(FieldOf(c, a))} :
            A \in SUBSET Attrs(c) }
\* the values written through the raw map-like interface, and found in raw
\* documents obtained elsewhere: what the field's _to_json stores, and for
\* an integer field a decimal string as well
RawValsOf(f) ==
    CASE f.kind = "Text" -> {S("a")}
      [] f.kind = "Integer" -> IF f.default = Callable THEN {S("7")} ELSE {I(5)}
      [] OTHER -> {}
FieldNames(c) == {FieldOf(c, a).name : a \in Attrs(c)}
RawVals(c, key) == UNION {RawValsOf(FieldOf(c, a)) : a \in {b \in Attrs(c) : FieldOf(c, b).name = key}}
RawDocs(c) ==
    UNION { {d \in [A -> AllInputs \cup {S("7")}] : \A k \in A : d[k] \in RawVals(c, k)} :
            A \in SUBSET FieldNames(c) }
UserIds == {S("u")}

Data(r) == recs[r].data
Rec(ref, src) == [data |-> ref, src |-> src]

\* cls(**values) for a Schema, cls(id=id, **values) for a Document
Construct(kwargs, id) ==
    With(SchemaInit(St, cut, kwargs), LAMBDA r :
      With(IF r.err = "" /\ id # None THEN DocSetId(r.st, r.val.n, id) ELSE r, LAMBDA r2 :
        /\ Len(recs) < MaxRecs
        /\ id # None => classes[cut].doc
        /\ r2.err = ""
        /\ Fits(r2.st)
        /\ Commit(r2.st)
        /\ recs' = Append(recs, Rec(r.val.n, 0))
        /\ last' = Op("construct", Len(recs) + 1, "", kwargs, id, r.val, "", <<>>)
        /\ UNCHANGED <<db, fobjs, classes, cut, fieldOrder, rt>>))

\* a raw document arrives from elsewhere (a query row, a decoded response)
NewRaw(content) ==
    /\ Cardinality(Roots(St)) < MaxDicts
    /\ dicts' = Append(dicts, content)
    /\ last' = Op("raw", 0, "", EmptyDict, None, D(Len(dicts) + 1), "", <<>>)
    /\ UNCHANGED <<lists, recs, clock, db, fobjs, classes, cut, fieldOrder, rt>>

\* cls.wrap(data)
Wrap(ref) ==
    With(SchemaWrap(St, cut, ref), LAMBDA w :
      /\ Len(recs) < MaxRecs
      /\ w.err = ""
      /\ Fits(w.st)
      /\ Commit(w.st)
      /\ recs' = Append(recs, Rec(w.val.n, ref))
      /\ last' = Op("wrap", Len(recs) + 1, "", EmptyDict, D(ref), w.val, "", <<>>)
      /\ UNCHANGED <<db, fobjs, classes, cut, fieldOrder, rt>>)

\* value = instance.attr
TypedGet(r, attr) ==
    With(FieldGet(St, Data(r), FieldOf(cut, attr)), LAMBDA g :
      /\ Fits(g.st)
      /\ Commit(g.st)
      /\ last' = Op("get", r, attr, EmptyDict, None, g.val, g.err, <<>>)
      /\ UNCHANGED <<recs, db, fobjs, classes, cut, fieldOrder, rt>>)

\* instance.attr = value
TypedSet(r, attr, v) ==
    With(FieldSet(St, Data(r), FieldOf(cut, attr), v), LAMBDA w :
      /\ Fits(w.st)
      /\ Commit(w.st)
      /\ last' = Op("set", r, attr, EmptyDict, v, None, w.err, <<>>)
      /\ UNCHANGED <<recs, db, fobjs, classes, cut, fieldOrder, rt>>)

\* instance[key] = value (Schema.__setitem__)
RawSet(r, key, v) ==
    /\ dicts' = [dicts EXCEPT ![Data(r)] = DPut(@, key, v)]
    /\ last' = Op("rawset", r, key, EmptyDict, v, None, "", <<>>)
    /\ UNCHANGED <<lists, recs, clock, db, fobjs, classes, cut, fieldOrder, rt>>

\* del instance[key] (Schema.__delitem__)
RawDel(r, key) ==
    /\ IF key \in DOMAIN dicts[Data(r)]
       THEN /\ dicts' = [dicts EXCEPT ![Data(r)] = DDel(@, key)]
            /\ last' = Op("rawdel", r, key, EmptyDict, None, None, "", <<>>)
       ELSE /\ dicts' = dicts
            /\ last' = Op("rawdel", r, key, EmptyDict, None, None, "KeyError", <<>>)
    /\ UNCHANGED <<lists, recs, clock, db, fobjs, classes, cut, fieldOrder, rt>>

\* instance.id = value
SetId(r, v) ==
    LET w == DocSetId(St, Data(r), v)
    IN /\ classes[cut].doc
       /\ Commit(w.st)
       /\ last' = Op("setid", r, "", EmptyDict, v, None, w.err, <<>>)
       /\ UNCHANGED <<recs, db, fobjs, classes, cut, fieldOrder, rt>>

\* instance.store(db)
Store(r) ==
    LET w == DocStore(St, db, Data(r))
    IN /\ classes[cut].doc
       /\ Fits(w.st)
       /\ Cardinality(DOMAIN w.db) <= MaxDb
       /\ Commit(w.st)
       /\ db' = w.db
       /\ recs' = [recs EXCEPT ![r].data = w.data]
       /\ last' = Op("store", r, "", EmptyDict, D(Data(r)), SchemaOf(w.data), "", w.calls)
       /\ UNCHANGED <<fobjs, classes, cut, fieldOrder, rt>>

\* cls.load(db, id)
Load(id) ==
    With(DbGet(St, db, id), LAMBDA g :
      With(IF g.val = None THEN g ELSE SchemaWrap(g.st, cut, g.val.n), LAMBDA w :
        /\ classes[cut].doc
        /\ Len(recs) < MaxRecs
        /\ w.err = ""
        /\ Fits(w.st)
        /\ Commit(w.st)
        /\ recs' = IF w.val = None THEN recs ELSE Append(recs, Rec(w.val.n, g.val.n))
        /\ last' = Op("load", IF w.val = None THEN 0 ELSE Len(recs) + 1, id, EmptyDict,
                      None, w.val, "", <<Call("get", id)>>)
        /\ UNCHANGED <<db, fobjs, classes, cut, fieldOrder, rt>>))


\* a raw document with a raw sequence of raw comment documents arrives
NewRawPost(key, elems) ==
    LET n == Len(dicts)
        st == [dicts |-> dicts \o elems \o <<[x \in {key} |-> L(Len(lists) + 1)]>>,
               lists |-> Append(lists, [i \in 1..Len(elems) |-> D(n + i)]),
               clock |-> clock]
    IN /\ Fits(st)
       /\ Commit(st)
       /\ last' = Op("raw", 0, "", EmptyDict, None, D(n + Len(elems) + 1), "", <<>>)
       /\ UNCHANGED <<recs, db, fobjs, classes, cut, fieldOrder, rt>>

\* instance.attr.append(**kw)
AppendKw(r, attr, kw) ==
    With(FieldGet(St, Data(r), FieldOf(cut, attr)), LAMBDA g :
      With(IF g.err # "" THEN g
           ELSE IF g.val.k = "proxy"
                THEN ProxyAppendKw(g.st, g.val.n, fobjs[FieldOf(cut, attr).elem], kw)
           ELSE IF g.val.k = "list" THEN Raise(g.st, "TypeError")
           ELSE Raise(g.st, "AttributeError"), LAMBDA w :
        /\ Fits(w.st)
        /\ Commit(w.st)
        /\ last' = Op("appendkw", r, attr, kw, None, g.val, w.err, <<>>)
        /\ UNCHANGED <<recs, db, fobjs, classes, cut, fieldOrder, rt>>))

\* instance.attr[i - 1] = value, value a mapping kw
SetItem(r, attr, i, kw) ==
    With(FieldGet(St, Data(r), FieldOf(cut, attr)), LAMBDA g :
      With(IF g.err # "" THEN g
           ELSE IF g.val.k = "proxy"
                THEN ProxySetItem(g.st, g.val.n, fobjs[FieldOf(cut, attr).elem], i, kw)
           ELSE IF g.val.k = "list" THEN ListSetItem(g.st, g.val.n, i, kw)
           ELSE Raise(g.st, "TypeError"), LAMBDA w :
        /\ Fits(w.st)
        /\ Commit(w.st)
        /\ last' = Op("setitem", r, attr, kw, I(i), g.val, w.err, <<>>)
        /\ UNCHANGED <<recs, db, fobjs, classes, cut, fieldOrder, rt>>))

\* the elements of raw sequences that nothing in st refers to any more:
\* no list, no dict and no record
Garbage(st) ==
    {d \in Elems(St) :
        /\ \A l \in DOMAIN st.lists : \A j \in DOMAIN st.lists[l] :
              ~(st.lists[l][j].k \in {"dict", "schema"} /\ st.lists[l][j].n = d)
        /\ \A x \in DOMAIN st.dicts : \A key \in DOMAIN st.dicts[x] :
              ~(st.dicts[x][key].k \in {"dict", "schema"} /\ st.dicts[x][key].n = d)
        /\ \A q \in DOMAIN recs : recs[q].data # d /\ recs[q].src # d}

\* the heaps once the dict object d is deallocated: the dict objects after
\* it, and the references to them, move down by one
Free(st, d) ==
    LET Moved(v) == IF v.k \in {"dict", "schema"} /\ v.n > d
                    THEN [v EXCEPT !.n = @ - 1] ELSE v
    IN [st EXCEPT
          !.dicts = [x \in 1..(Len(@) - 1) |->
                       [key \in DOMAIN @[IF x < d THEN x ELSE x + 1]
                          |-> Moved(@[IF x < d THEN x ELSE x + 1][key])]],
          !.lists = [l \in DOMAIN @ |-> [j \in DOMAIN @[l] |-> Moved(@[l][j])]]]

\* del instance.attr[index]; an element nothing else refers to is deallocated,
\* and the bounds are those of the heap that remains
DelItem(r, attr, index) ==
    With(FieldGet(St, Data(r), FieldOf(cut, attr)), LAMBDA g :
      With(IF g.err # "" THEN g
           ELSE IF g.val.k \in {"proxy", "list"} THEN ProxyDelItem(g.st, g.val.n, index)
           ELSE Raise(g.st, "TypeError"), LAMBDA w :
        With(Garbage(w.st), LAMBDA gone :
          IF gone = {}
          THEN /\ Fits(w.st)
               /\ Commit(w.st)
               /\ recs' = recs
               /\ last' = Op("delitem", r, attr, EmptyDict, I(index), g.val, w.err, <<>>)
               /\ UNCHANGED <<db, fobjs, classes, cut, fieldOrder, rt>>
          ELSE With(CHOOSE d \in gone : TRUE, LAMBDA d :
                 /\ Fits(Free(w.st, d))
                 /\ Commit(Free(w.st, d))
                 /\ recs' = [q \in DOMAIN recs |->
                               [data |-> IF recs[q].data > d THEN recs[q].data - 1
                                         ELSE recs[q].data,
                                src |-> IF recs[q].src > d THEN recs[q].src - 1
                                        ELSE recs[q].src]]
                 /\ last' = Op("delitem", r, attr, EmptyDict, I(index), g.val, w.err, <<>>)
                 /\ UNCHANGED <<db, fobjs, classes, cut, fieldOrder, rt>>))))

\* instance.attr.append(value), value a mapping
AppendValue(r, attr, value) ==
    With(FieldGet(St, Data(r), FieldOf(cut, attr)), LAMBDA g :
      With(IF g.err # "" THEN g
           ELSE IF g.val.k = "proxy"
                THEN ProxyAppend(g.st, g.val.n, fobjs[FieldOf(cut, attr).elem], value)
           ELSE IF g.val.k = "list" THEN ListAppend(g.st, g.val.n, value)
           ELSE Raise(g.st, "AttributeError"), LAMBDA w :
        /\ Fits(w.st)
        /\ Commit(w.st)
        /\ last' = Op("append", r, attr, value, None, g.val, w.err, <<>>)
        /\ UNCHANGED <<recs, db, fobjs, classes, cut, fieldOrder, rt>>))

\* instance.attr.extend(items), items a list of mappings
ExtendValues(r, attr, items) ==
    With(FieldGet(St, Data(r), FieldOf(cut, attr)), LAMBDA g :
      With(IF g.err # "" THEN g
           ELSE IF g.val.k = "proxy"
                THEN ProxyExtend(g.st, g.val.n, fobjs[FieldOf(cut, attr).elem], items)
           ELSE IF g.val.k = "list" THEN ListExtend(g.st, g.val.n, items)
           ELSE Raise(g.st, "AttributeError"), LAMBDA w :
        /\ Fits(w.st)
        /\ Commit(w.st)
        /\ last' = Op("extend", r, attr, EmptyDict, I(Len(items)), g.val, w.err, <<>>)
        /\ UNCHANGED <<recs, db, fobjs, classes, cut, fieldOrder, rt>>))

(***************************************************************************)
(* Specifications.                                                         *)
(***************************************************************************)
InitWith(types) ==
    /\ dicts = <<EmptyDict>>
    /\ lists = << <<>> >>
    /\ recs = <<>>
    /\ clock = 0
    /\ db = NoDb
    /\ fobjs = App.fobjs
    /\ classes = App.classes
    /\ cut \in types
    /\ fieldOrder \in FieldOrders(App.classes, Instantiated(App.fobjs, App.classes, cut))
    /\ rt = NoRT
    /\ last = NoOp

\* Schema records with scalar fields, fresh and wrapped
Init == InitWith({PersonCls})

Next ==
    \/ \E kw \in KwargsOf(cut) : Construct(kw, None)
    \/ \E d \in RawDocs(cut) : NewRaw(d)
    \/ \E ref \in Roots(St) \ {DictDefaultRef} : Wrap(ref)
    \/ \E r \in 1..Len(recs), a \in Attrs(cut) : TypedGet(r, a)
    \/ \E r \in 1..Len(recs), a \in Attrs(cut) :
          \E v \in Inputs(FieldOf(cut, a)) : TypedSet(r, a, v)

Spec == Init /\ [][Next]_vars

\* Documents and the external store
InitDoc == InitWith({ArticleCls})

NextDoc ==
    \/ \E kw \in KwargsOf(cut), id \in UserIds \cup {None} : Construct(kw, id)
    \/ \E r \in 1..Len(recs), a \in Attrs(cut) :
          \E v \in Inputs(FieldOf(cut, a)) : TypedSet(r, a, v)
    \/ \E r \in 1..Len(recs), v \in UserIds \cup {S("w")} : SetId(r, v)
    \/ \E r \in 1..Len(recs) : Store(r)
    \/ \E id \in DOMAIN db \cup {"zz"} : Load(id)

SpecDoc == InitDoc /\ [][NextDoc]_vars

\* Schema records with a producer default, with the raw map-like interface
InitEvent == InitWith({EventCls})

NextEvent ==
    \/ Next
    \/ \E r \in 1..Len(recs), k \in FieldNames(cut) :
          \E v \in RawVals(cut, k) : RawSet(r, k, v)
    \/ \E r \in 1..Len(recs), k \in FieldNames(cut) : RawDel(r, k)

SpecEvent == InitEvent /\ [][NextEvent]_vars

\* Records with a ListField of nested schemas
InitList == InitWith({PostCls})

ListAttrs(c) == {a \in Attrs(c) : FieldOf(c, a).kind = "List"}
ElemCls(c, a) == fobjs[FieldOf(c, a).elem].elem
RawElems == {<<>>, <<[x \in {"author", "stars"} |-> IF x = "author" THEN S("a") ELSE I(0)]>>}
\* the bundles given to append and as element values: the fields without a
\* default are named, the others left to their defaults
Bundles(c) == {kw \in KwargsOf(c) : DOMAIN kw = {a \in Attrs(c) : FieldOf(c, a).default = None}}

NextList ==
    \/ \E kw \in KwargsOf(cut) : Construct(kw, None)
    \/ \E d \in RawDocs(cut) : NewRaw(d)
    \/ \E a \in ListAttrs(cut), e \in RawElems : NewRawPost(NameOf(a), e)
    \/ \E ref \in Roots(St) \ {DictDefaultRef} : Wrap(ref)
    \/ \E r \in 1..Len(recs), a \in ListAttrs(cut) :
          \E kw \in Bundles(ElemCls(cut, a)) : AppendKw(r, a, kw)
    \/ \E r \in 1..Len(recs), a \in ListAttrs(cut) :
          \E i \in 1..(Len(lists[FieldGet(St, Data(r), FieldOf(cut, a)).val.n]) + 1) :
             \E kw \in Bundles(ElemCls(cut, a)) : SetItem(r, a, i, kw)

SpecList == InitList /\ [][NextList]_vars

\* Records with a ListField, fresh and wrapped over raw documents with and
\* without the key, read and appended to
InitIso == InitWith({PostCls})

NextIso ==
    \/ Construct(EmptyDict, None)
    \/ \E d \in RawDocs(cut) : NewRaw(d)
    \/ \E a \in ListAttrs(cut), e \in RawElems : NewRawPost(NameOf(a), e)
    \/ \E ref \in Roots(St) \ {DictDefaultRef} : Wrap(ref)
    \/ \E r \in 1..Len(recs), a \in ListAttrs(cut) : TypedGet(r, a)
    \/ \E r \in 1..Len(recs), a \in ListAttrs(cut) :
          \E v \in Bundles(ElemCls(cut, a)) : AppendValue(r, a, v)
    \/ \E r \in 1..Len(recs), a \in ListAttrs(cut) :
          \E v \in Bundles(ElemCls(cut, a)) : \E n \in 1..MaxElems :
             ExtendValues(r, a, [i \in 1..n |-> v])
    \/ \E r \in 1..Len(recs), a \in ListAttrs(cut) :
          \E index \in (0 - 1)..(MaxElems - 1) : DelItem(r, a, index)

SpecIso == InitIso /\ [][NextIso]_vars

(***************************************************************************)
(* Schema definition: class statements and Schema.build over a pool of     *)
(* Field objects.                                                          *)
(*   f1 = TextField()            the name is inferred on first declaration *)
(*   f2 = TextField(name='a')    the name is explicit                      *)
(***************************************************************************)
FieldPool == << F("Text", "", None, 0), F("Text", "a", None, 0) >>
AttrNames == {"a", "b"}

\* the class bodies: every order d.items() can yield for a mapping from
\* attribute names to the values vals: Field objects of the pool, or 0 for a
\* value that is no Field
ClassBodies(vals) ==
    LET maps == UNION {[ats -> vals] : ats \in SUBSET AttrNames}
    IN UNION {{its \in [1..Cardinality(DOMAIN mp) -> (DOMAIN mp) \X vals] :
                  /\ \A i \in DOMAIN its : its[i][2] = mp[its[i][1]]
                  /\ \A i, j \in DOMAIN its : i # j => its[i][1] # its[j][1]}
              : mp \in maps}

RECURSIVE IsSubclass(_, _, _)
\* issubclass(c, b)
IsSubclass(cs, c, b) ==
    \/ c = b
    \/ \E i \in 1..Len(cs[c].bases) : IsSubclass(cs, cs[c].bases[i], b)

\* the base lists of a class statement that type.__new__ accepts: one class,
\* or two of the application's classes with a consistent method resolution
\* order
BaseLists(cs) ==
    LET user == (DocumentCls + 1)..Len(cs)
    IN {<<c>> : c \in {SchemaCls} \cup user}
         \cup {p \in {<<c, b>> : c \in user, b \in user} : ~IsSubclass(cs, p[2], p[1])}

RegOp(op, bases, items) == [op |-> op, bases |-> bases, items |-> items]

\* class C(bases): <body>
DefineClass(bases, items) ==
    LET r == SchemaMetaNew(fobjs, classes, bases, items)
    IN /\ Len(classes) < DocumentCls + MaxClasses
       /\ fobjs' = r.fobjs
       /\ classes' = Append(classes, r.cls)
       /\ last' = RegOp("class", bases, items)
       /\ UNCHANGED <<dicts, lists, recs, clock, db, cut, fieldOrder, rt>>

\* cls.build(**d)
Build(cls, items) ==
    LET r == SchemaBuild(fobjs, classes, cls, items)
    IN /\ Len(classes) < DocumentCls + MaxClasses
       /\ fobjs' = r.fobjs
       /\ classes' = Append(classes, r.cls)
       /\ last' = RegOp("build", <<cls>>, items)
       /\ UNCHANGED <<dicts, lists, recs, clock, db, cut, fieldOrder, rt>>

InitReg ==
    /\ dicts = <<EmptyDict>>
    /\ lists = << <<>> >>
    /\ recs = <<>>
    /\ clock = 0
    /\ db = NoDb
    /\ fobjs = FieldPool
    /\ classes = BaseClasses
    /\ cut = SchemaCls
    /\ fieldOrder = <<>>
    /\ rt = NoRT
    /\ last = NoOp

NextReg ==
    \/ \E bases \in BaseLists(classes), items \in ClassBodies(0..Len(FieldPool)) :
          DefineClass(bases, items)
    \/ \E cls \in {SchemaCls} \cup ((DocumentCls + 1)..Len(classes)), items \in ClassBodies(1..Len(FieldPool)) :
          Build(cls, items)

SpecReg == InitReg /\ [][NextReg]_vars

(***************************************************************************)
(* Scalar conversion: a typed value written to raw form, read back, and    *)
(* written again.                                                          *)
(***************************************************************************)
ScalarKinds == {"Text", "Float", "Integer", "Long", "Boolean", "Decimal",
                "Date", "DateTime", "Time"}

\* the Python type of the typed values of each kind
Native(kind) ==
    CASE kind = "Text" -> "str"
      [] kind = "Float" -> "float"
      [] kind \in {"Integer", "Long"} -> "int"
      [] kind = "Boolean" -> "bool"
      [] kind = "Decimal" -> "decimal"
      [] kind = "Date" -> "date"
      [] kind = "DateTime" -> "datetime"
      [] kind = "Time" -> "time"

Dates ==
    {ymd \in {1969, 1970, 2000, 2007, 2037} \X {1, 2, 3, 12} \X {1, 28, 29, 31} :
        ymd[3] <= MDays(ymd[1])[ymd[2]]}
Times == {0, 15, 23} \X {0, 59} \X {0, 59} \X {0, 9876, 499999, 500000, 999999}
Decimals == {Decimal(sg, c, e) : sg \in {0, 1}, c \in {0, 5, 150}, e \in {0 - 8, 0 - 2, 0 - 1, 0, 2}}

\* the typed values the application converts: those of the field's own type
\* and the other types its _to_json accepts
TypedValues(kind) ==
    CASE kind = "Text" -> {S(""), S("a"), S("7")}
      [] kind = "Float" -> {Float(h) : h \in {0 - 3, 0, 1, 4}}
      [] kind \in {"Integer", "Long"} -> {I(i) : i \in {0 - MaxInt, 0, 5}}
      [] kind = "Boolean" -> {Bool(TRUE), Bool(FALSE)}
      [] kind = "Decimal" -> Decimals
      [] kind = "Date" -> {Date(d) : d \in Dates}
                            \cup {DateTime(<<2007, 4, 1>>, <<15, 30, 0, 0>>)}
      [] kind = "DateTime" -> {DateTime(d, t) : d \in Dates, t \in Times}
                                \cup {Date(<<2007, 4, 1>>),
                                      StructTime(<<2007, 4, 1, 15, 30, 0>>)}
      [] kind = "Time" -> {Time(t) : t \in Times}
                            \cup {DateTime(<<2007, 4, 1>>, <<15, 30, 0, 9876>>)}

\* json = field._to_json(x)
WriteRaw ==
    LET r == ScalarToJson(rt.kind, rt.x)
    IN /\ rt.pc = "start"
       /\ rt' = [rt EXCEPT !.json = r.val, !.err = r.err,
                           !.pc = IF r.err = "" THEN "written" ELSE "failed"]
       /\ UNCHANGED <<dicts, lists, recs, clock, db, fobjs, classes, cut, fieldOrder, last>>

\* back = field._to_python(json)
ReadBack ==
    LET r == ScalarToPython(rt.kind, rt.json)
    IN /\ rt.pc = "written"
       /\ rt' = [rt EXCEPT !.back = r.val, !.err = r.err,
                           !.pc = IF r.err = "" THEN "read" ELSE "failed"]
       /\ UNCHANGED <<dicts, lists, recs, clock, db, fobjs, classes, cut, fieldOrder, last>>

\* again = field._to_json(back)
WriteAgain ==
    LET r == ScalarToJson(rt.kind, rt.back)
    IN /\ rt.pc = "read"
       /\ rt' = [rt EXCEPT !.again = r.val, !.err = r.err,
                           !.pc = IF r.err = "" THEN "done" ELSE "failed"]
       /\ UNCHANGED <<dicts, lists, recs, clock, db, fobjs, classes, cut, fieldOrder, last>>

InitRT ==
    /\ dicts = <<EmptyDict>>
    /\ lists = << <<>> >>
    /\ recs = <<>>
    /\ clock = 0
    /\ db = NoDb
    /\ fobjs = App.fobjs
    /\ classes = App.classes
    /\ cut = SchemaCls
    /\ fieldOrder = <<>>
    /\ last = NoOp
    /\ \E kind \in ScalarKinds : \E x \in TypedValues(kind) :
          rt = [NoRT EXCEPT !.kind = kind, !.x = x, !.pc = "start"]

NextRT == WriteRaw \/ ReadBack \/ WriteAgain

SpecRT == InitRT /\ [][NextRT]_vars

(***************************************************************************)
(* Claims.                                                                 *)
(***************************************************************************)
StNext == [dicts |-> dicts', lists |-> lists', clock |-> clock']

\* C1: after construct(), the key of every field for which no
\* value was supplied is absent from the backing store.
C1_UnsuppliedAbsent ==
    last.op = "construct" =>
        \A a \in Attrs(cut) \ DOMAIN last.kw : NameOf(a) \notin DOMAIN dicts[last.ret.n]

\* C3: two instances made by wrap() of the same raw document hold that very
\* dict as _data, so that after any raw or typed writes through one of them
\* both read the same keys and values, raw and typed, and unwrap() of either
\* is the raw document.
C3_Aliasing ==
    \A a, b \in 1..Len(recs) :
        (recs[a].src # 0 /\ recs[a].src = recs[b].src) =>
            /\ Data(a) = recs[a].src
            /\ Data(b) = recs[a].src
            /\ \A k \in FieldNames(cut) :
                  /\ (k \in DOMAIN dicts[Data(a)]) = (k \in DOMAIN dicts[Data(b)])
                  /\ DGet(dicts[Data(a)], k) = DGet(dicts[Data(b)], k)
            /\ \A at \in Attrs(cut) :
                  FieldGet(St, Data(a), FieldOf(cut, at)).val
                      = FieldGet(St, Data(b), FieldOf(cut, at)).val

C3_Witness ==
    /\ Len(recs) = 2
    /\ recs[1].src # 0
    /\ recs[1].src = recs[2].src
    /\ last.op = "rawset"
    /\ last.rec = 1
    /\ DGet(dicts[Data(2)], last.key) = last.val
    /\ FieldGet(St, Data(2), FieldOf(cut, "added")).val = I(7)

\* C7: wrap(raw) changes no dict (raw keeps its keys and values), the new
\* instance's _data is raw itself, and on it the typed getter of a field
\* without a default whose key raw lacks returns None.
C7_WrapNoDefaulting ==
    [][(last'.op = "wrap" /\ Len(recs') = Len(recs) + 1) =>
          /\ dicts' = dicts
          /\ recs'[Len(recs')].data = last'.val.n
          /\ \A a \in Attrs(cut) :
                (FieldOf(cut, a).default = None /\ NameOf(a) \notin DOMAIN dicts[last'.val.n])
                    => FieldGet(StNext, recs'[Len(recs')].data, FieldOf(cut, a)).val = None]_vars

C7_Witness ==
    /\ last.op = "wrap"
    /\ dicts[last.val.n] = [x \in {"age"} |-> I(5)]
    /\ Data(last.rec) = last.val.n
    /\ FieldGet(St, Data(last.rec), FieldOf(cut, "age")).val = I(5)
    /\ FieldGet(St, Data(last.rec), FieldOf(cut, "name")).val = None

\* C8, on a fresh record: the typed read that follows construct()
\* without the producer-default field (the field was not supplied and has
\* not been assigned) invokes the producer and returns that invocation's
\* result.
C8_FreshReadInvokes ==
    [][(/\ last.op = "construct"
        /\ last'.op = "get"
        /\ last'.rec = last.rec
        /\ last'.key \notin DOMAIN last.kw
        /\ FieldOf(cut, last'.key).default = Callable)
          => (clock' = clock + 1 /\ last'.ret = I(clock + 1))]_vars

\* C2: an id assignment on a Document whose '_id' is absent succeeds and sets
\* '_id' (also the id keyword of the constructor); on a Document whose '_id'
\* is set it raises AttributeError, whatever the value, and changes no dict.
C2_IdWriteOnce ==
    [][/\ last'.op = "setid" =>
            IF DocGetId(St, Data(last'.rec)) = None
            THEN /\ last'.err = ""
                 /\ dicts' = [dicts EXCEPT ![Data(last'.rec)] = DPut(@, "_id", last'.val)]
            ELSE /\ last'.err = "AttributeError"
                 /\ dicts' = dicts
       /\ (last'.op = "construct" /\ Len(recs') = Len(recs) + 1 /\ last'.val # None) =>
            DocGetId(StNext, last'.ret.n) = last'.val]_vars

C2_Witness ==
    /\ last.op = "setid"
    /\ last.err = "AttributeError"
    /\ DocGetId(St, Data(last.rec)) = last.val

\* C4: store(db) on a Document without an id calls create and then get with
\* the id create returned; afterwards _data is another dict than before,
\* equal to the stored document, with the created id and the revision the
\* store assigned; store returns the instance.
C4_StoreResync ==
    [][(last'.op = "store" /\ DocGetId(St, Data(last'.rec)) = None) =>
          /\ Len(last'.calls) = 2
          /\ last'.calls[1].fn = "create"
          /\ last'.calls[2].fn = "get"
          /\ last'.calls[2].id \in DOMAIN db' \ DOMAIN db
          /\ recs'[last'.rec].data # Data(last'.rec)
          /\ dicts'[recs'[last'.rec].data] = db'[last'.calls[2].id]
          /\ DocGetId(StNext, recs'[last'.rec].data) = S(last'.calls[2].id)
          /\ DocGetRev(StNext, recs'[last'.rec].data) = I(1)
          /\ \A k \in DOMAIN dicts[Data(last'.rec)] \ {"_id", "_rev"} :
                DGet(dicts'[recs'[last'.rec].data], k) = dicts[Data(last'.rec)][k]
          /\ last'.ret = SchemaOf(recs'[last'.rec].data)]_vars

C4_Witness ==
    /\ last.op = "store"
    /\ last.calls = <<Call("create", ""), Call("get", "d1")>>
    /\ DocGetId(St, Data(last.rec)) = S("d1")
    /\ DocGetRev(St, Data(last.rec)) = I(1)
    /\ Data(last.rec) # last.val.n

\* the raw sequence a list field of record r holds in the backing store
RawList(r, a) == DGet(dicts[Data(r)], NameOf(a)).n
\* what the element field's _to_json makes of the mapping kw: the content of
\* S(**kw).unwrap()
ElemJson(a, kw) ==
    LET e == DictToJsonKw(St, fobjs[FieldOf(cut, a).elem], kw)
    IN e.st.dicts[e.val.n]

\* C5: view[i] = value on the typed view of a raw sequence, i a valid
\* index, completes; afterwards raw[i] is the element field's _to_json of the
\* value supplied, and the length of raw and its other elements are as before.
C5_SetItemStores ==
    [][(/\ last'.op = "setitem"
        /\ last'.ret.k = "proxy"
        /\ last'.val.n \in 1..Len(lists[last'.ret.n]))
          => LET l == last'.ret.n
                 i == last'.val.n
             IN /\ last'.err = ""
                /\ Len(lists'[l]) = Len(lists[l])
                /\ \A j \in 1..Len(lists[l]) : j # i => lists'[l][j] = lists[l][j]
                /\ dicts'[lists'[l][i].n] = ElemJson(last'.key, last'.kw)]_vars

\* C6: append(**kw) on the typed view of a list field of nested schemas S
\* appends exactly one element to the raw sequence held in the record's
\* backing store: the list object is the same, its previous elements and
\* their contents are as before, and the new last element has the content of
\* S(**kw).unwrap().
C6_NestedAppend ==
    [][(/\ last'.op = "appendkw"
        /\ last'.ret.k = "proxy")
          => LET l == RawList(last'.rec, last'.key)
             IN /\ last'.err = ""
                /\ last'.ret = ProxyOf(l)
                /\ DGet(dicts'[Data(last'.rec)], NameOf(last'.key)) = L(l)
                /\ Len(lists'[l]) = Len(lists[l]) + 1
                /\ SubSeq(lists'[l], 1, Len(lists[l])) = lists[l]
                /\ \A i \in 1..Len(dicts) : dicts'[i] = dicts[i]
                /\ lists'[l][Len(lists'[l])].k = "dict"
                /\ dicts'[lists'[l][Len(lists'[l])].n] = ElemJson(last'.key, last'.kw)]_vars

C6_Witness ==
    /\ last.op = "appendkw"
    /\ last.err = ""
    /\ Len(lists[RawList(last.rec, last.key)]) = 2
    /\ dicts[lists[RawList(last.rec, last.key)][2].n]
         = [x \in {"author", "stars"} |-> IF x = "author" THEN S("a") ELSE I(0)]

\* C9: in the registry of every schema type no two distinct Field
\* entries have the same field name.
C9_NameUnique ==
    \A c \in 1..Len(classes) : \A a, b \in DOMAIN classes[c].fields :
        classes[c].fields[a] # classes[c].fields[b]
           => fobjs[classes[c].fields[a]].name # fobjs[classes[c].fields[b]].name

\* x with its sub-second component set to zero
WholeSecond(x) == [x EXCEPT !.hmsu[4] = 0]

\* C10: for a typed value x of a scalar kind other than date-time and
\* time-of-day, to_python(to_json(x)) is x; for a date-time or a time of day
\* it is x with the sub-second component set to zero, never the next second;
\* and to_json of the value read back is to_json(x).
C10_RoundTrip ==
    (rt.kind # "" /\ rt.x.k = Native(rt.kind))
        => /\ rt.pc # "failed"
           /\ (rt.pc \in {"read", "done"} /\ rt.kind \notin {"DateTime", "Time"})
                 => rt.back = rt.x
           /\ (rt.pc \in {"read", "done"} /\ rt.kind \in {"DateTime", "Time"})
                 => rt.back = WholeSecond(rt.x)
           /\ rt.pc = "done" => rt.again = rt.json

\* a date-time in the last second of a year and in the second half of that
\* second has been written and read back
C10_Witness ==
    /\ rt.pc = "done"
    /\ rt.kind = "DateTime"
    /\ rt.x = DateTime(<<1969, 12, 31>>, <<23, 59, 59, 999999>>)
    /\ rt.json = S("1969-12-31T23:59:59Z")
    /\ rt.back = DateTime(<<1969, 12, 31>>, <<23, 59, 59, 0>>)

\* what a typed read of field f through a record over the raw document ref
\* yields in st: the contents of the elements, in order
ReadList(st, ref, f) ==
    With(FieldGet(st, ref, f), LAMBDA g :
      [i \in 1..Len(st.lists[g.val.n]) |-> st.dicts[st.lists[g.val.n][i].n]])

\* C11: append or extend on the value a typed read of a sequence field
\* returned through one record changes neither what any record over another
\* raw document reads from that field nor the field's configured default.
C11_Isolation ==
    [][last'.op \in {"append", "extend"}
          => /\ \A q \in 1..Len(recs) :
                   Data(q) # Data(last'.rec)
                      => ReadList(StNext, Data(q), FieldOf(cut, last'.key))
                           = ReadList(St, Data(q), FieldOf(cut, last'.key))
             /\ lists'[ListDefaultRef] = lists[ListDefaultRef]]_vars

====
